---- MODULE Spec2Model ----
\* Verification model of cnpj_app_streamlit/app.py (src/app.PY): the CNPJ
\* formatting/cleaning helpers, the registry lookup with its retry on 429,
\* the extraction of display fields and the Streamlit script with its
\* session state.
\*
\* Text is a sequence of characters, each a one-character string.  Texts the
\* code inspects character by character (the CNPJ input, taxId, the founding
\* date, the 'N/A' placeholder that reaches format_cnpj) are spelled that
\* way; fixed message literals and opaque names, which the code only
\* concatenates and shows, are kept as single chunks.
\* A Python dict is a function whose DOMAIN is the set of its keys; the empty
\* dict is << >>.  An optional value (None or a value) is a sequence of
\* length 0 or 1.
\* A character outside Latin-1 is named by its code point: "U+FF11" is the
\* one character FULLWIDTH DIGIT ONE.
EXTENDS Integers, Sequences, FiniteSets, TLC

VARIABLES
    cnpj_input,     \* value of the st.text_input widget (line 117)
    display_cnpj,   \* display_cnpj computed by the last script run (line 120)
    messages,       \* st.info/warning/error/success elements of the current run
    session_state,  \* st.session_state: dict with keys set at lines 137-149
    pc,             \* "idle" | "request" (in requests.get) | "sleep" (in time.sleep)
                    \* | "extract" (about to call extract_data_for_display)
    caller,         \* who called consultar_cnpj_api: "none" | "app" | "direct"
    cnpj,           \* argument `cnpj` of the active/last consultar_cnpj_api call
    url,            \* local `url` of the innermost consultar_cnpj_api frame (line 47)
    response,       \* outcome of the last requests.get (line 49)
    trace,          \* log of the calls made by the current/last lookup:
                    \* requests.get, st.warning, time.sleep, in order
    api_response,   \* value returned by the last outermost consultar_cnpj_api
                    \* call (<< >> before any call, while one is running and
                    \* when the call ended in an exception)
    extract_out,    \* outcome of the last extract_data_for_display call
    depth,          \* number of consultar_cnpj_api frames on the stack
    exc,            \* name of the exception that ended the last script run or
                    \* direct call, "" when it ended normally
    rendered        \* the export buttons the last script run put on the page

vars == <<cnpj_input, display_cnpj, messages, session_state, pc, caller, cnpj,
          url, response, trace, api_response, extract_out, depth, exc, rendered>>

-----------------------------------------------------------------------------
\* Bounds of the model

\* longest text composed character by character
MaxLen == 15
\* most characters other than "1" in a composed text
MaxOther == 2
\* consultar_cnpj_api frames the stack has room for before a call raises
\* RecursionError (sys.getrecursionlimit(), 1000 unless changed, less the
\* frames in use below the first call and those the calls of the deepest
\* frame need); taken small
RecursionLimit == 3

\* max_chars of the text input (line 117)
max_chars == 18
\* time.sleep(60) (line 55)
SLEEP_SECONDS == 60

-----------------------------------------------------------------------------
\* Characters and small helpers

\* The decimal digits (Unicode 14.0 category Nd), which \d matches and int()
\* reads: one row per script, each row the digits of value 0 to 9 in order.
\* The first row is "0".."9"; "U+FF10".."U+FF19" are the fullwidth digits.
DecimalDigits ==
    <<
       <<"0", "1", "2", "3", "4", "5", "6", "7", "8", "9">>,
       <<"U+0660", "U+0661", "U+0662", "U+0663", "U+0664", "U+0665", "U+0666", "U+0667", "U+0668", "U+0669">>,
       <<"U+06F0", "U+06F1", "U+06F2", "U+06F3", "U+06F4", "U+06F5", "U+06F6", "U+06F7", "U+06F8", "U+06F9">>,
       <<"U+07C0", "U+07C1", "U+07C2", "U+07C3", "U+07C4", "U+07C5", "U+07C6", "U+07C7", "U+07C8", "U+07C9">>,
       <<"U+0966", "U+0967", "U+0968", "U+0969", "U+096A", "U+096B", "U+096C", "U+096D", "U+096E", "U+096F">>,
       <<"U+09E6", "U+09E7", "U+09E8", "U+09E9", "U+09EA", "U+09EB", "U+09EC", "U+09ED", "U+09EE", "U+09EF">>,
       <<"U+0A66", "U+0A67", "U+0A68", "U+0A69", "U+0A6A", "U+0A6B", "U+0A6C", "U+0A6D", "U+0A6E", "U+0A6F">>,
       <<"U+0AE6", "U+0AE7", "U+0AE8", "U+0AE9", "U+0AEA", "U+0AEB", "U+0AEC", "U+0AED", "U+0AEE", "U+0AEF">>,
       <<"U+0B66", "U+0B67", "U+0B68", "U+0B69", "U+0B6A", "U+0B6B", "U+0B6C", "U+0B6D", "U+0B6E", "U+0B6F">>,
       <<"U+0BE6", "U+0BE7", "U+0BE8", "U+0BE9", "U+0BEA", "U+0BEB", "U+0BEC", "U+0BED", "U+0BEE", "U+0BEF">>,
       <<"U+0C66", "U+0C67", "U+0C68", "U+0C69", "U+0C6A", "U+0C6B", "U+0C6C", "U+0C6D", "U+0C6E", "U+0C6F">>,
       <<"U+0CE6", "U+0CE7", "U+0CE8", "U+0CE9", "U+0CEA", "U+0CEB", "U+0CEC", "U+0CED", "U+0CEE", "U+0CEF">>,
       <<"U+0D66", "U+0D67", "U+0D68", "U+0D69", "U+0D6A", "U+0D6B", "U+0D6C", "U+0D6D", "U+0D6E", "U+0D6F">>,
       <<"U+0DE6", "U+0DE7", "U+0DE8", "U+0DE9", "U+0DEA", "U+0DEB", "U+0DEC", "U+0DED", "U+0DEE", "U+0DEF">>,
       <<"U+0E50", "U+0E51", "U+0E52", "U+0E53", "U+0E54", "U+0E55", "U+0E56", "U+0E57", "U+0E58", "U+0E59">>,
       <<"U+0ED0", "U+0ED1", "U+0ED2", "U+0ED3", "U+0ED4", "U+0ED5", "U+0ED6", "U+0ED7", "U+0ED8", "U+0ED9">>,
       <<"U+0F20", "U+0F21", "U+0F22", "U+0F23", "U+0F24", "U+0F25", "U+0F26", "U+0F27", "U+0F28", "U+0F29">>,
       <<"U+1040", "U+1041", "U+1042", "U+1043", "U+1044", "U+1045", "U+1046", "U+1047", "U+1048", "U+1049">>,
       <<"U+1090", "U+1091", "U+1092", "U+1093", "U+1094", "U+1095", "U+1096", "U+1097", "U+1098", "U+1099">>,
       <<"U+17E0", "U+17E1", "U+17E2", "U+17E3", "U+17E4", "U+17E5", "U+17E6", "U+17E7", "U+17E8", "U+17E9">>,
       <<"U+1810", "U+1811", "U+1812", "U+1813", "U+1814", "U+1815", "U+1816", "U+1817", "U+1818", "U+1819">>,
       <<"U+1946", "U+1947", "U+1948", "U+1949", "U+194A", "U+194B", "U+194C", "U+194D", "U+194E", "U+194F">>,
       <<"U+19D0", "U+19D1", "U+19D2", "U+19D3", "U+19D4", "U+19D5", "U+19D6", "U+19D7", "U+19D8", "U+19D9">>,
       <<"U+1A80", "U+1A81", "U+1A82", "U+1A83", "U+1A84", "U+1A85", "U+1A86", "U+1A87", "U+1A88", "U+1A89">>,
       <<"U+1A90", "U+1A91", "U+1A92", "U+1A93", "U+1A94", "U+1A95", "U+1A96", "U+1A97", "U+1A98", "U+1A99">>,
       <<"U+1B50", "U+1B51", "U+1B52", "U+1B53", "U+1B54", "U+1B55", "U+1B56", "U+1B57", "U+1B58", "U+1B59">>,
       <<"U+1BB0", "U+1BB1", "U+1BB2", "U+1BB3", "U+1BB4", "U+1BB5", "U+1BB6", "U+1BB7", "U+1BB8", "U+1BB9">>,
       <<"U+1C40", "U+1C41", "U+1C42", "U+1C43", "U+1C44", "U+1C45", "U+1C46", "U+1C47", "U+1C48", "U+1C49">>,
       <<"U+1C50", "U+1C51", "U+1C52", "U+1C53", "U+1C54", "U+1C55", "U+1C56", "U+1C57", "U+1C58", "U+1C59">>,
       <<"U+A620", "U+A621", "U+A622", "U+A623", "U+A624", "U+A625", "U+A626", "U+A627", "U+A628", "U+A629">>,
       <<"U+A8D0", "U+A8D1", "U+A8D2", "U+A8D3", "U+A8D4", "U+A8D5", "U+A8D6", "U+A8D7", "U+A8D8", "U+A8D9">>,
       <<"U+A900", "U+A901", "U+A902", "U+A903", "U+A904", "U+A905", "U+A906", "U+A907", "U+A908", "U+A909">>,
       <<"U+A9D0", "U+A9D1", "U+A9D2", "U+A9D3", "U+A9D4", "U+A9D5", "U+A9D6", "U+A9D7", "U+A9D8", "U+A9D9">>,
       <<"U+A9F0", "U+A9F1", "U+A9F2", "U+A9F3", "U+A9F4", "U+A9F5", "U+A9F6", "U+A9F7", "U+A9F8", "U+A9F9">>,
       <<"U+AA50", "U+AA51", "U+AA52", "U+AA53", "U+AA54", "U+AA55", "U+AA56", "U+AA57", "U+AA58", "U+AA59">>,
       <<"U+ABF0", "U+ABF1", "U+ABF2", "U+ABF3", "U+ABF4", "U+ABF5", "U+ABF6", "U+ABF7", "U+ABF8", "U+ABF9">>,
       <<"U+FF10", "U+FF11", "U+FF12", "U+FF13", "U+FF14", "U+FF15", "U+FF16", "U+FF17", "U+FF18", "U+FF19">>,
       <<"U+104A0", "U+104A1", "U+104A2", "U+104A3", "U+104A4", "U+104A5", "U+104A6", "U+104A7", "U+104A8", "U+104A9">>,
       <<"U+10D30", "U+10D31", "U+10D32", "U+10D33", "U+10D34", "U+10D35", "U+10D36", "U+10D37", "U+10D38", "U+10D39">>,
       <<"U+11066", "U+11067", "U+11068", "U+11069", "U+1106A", "U+1106B", "U+1106C", "U+1106D", "U+1106E", "U+1106F">>,
       <<"U+110F0", "U+110F1", "U+110F2", "U+110F3", "U+110F4", "U+110F5", "U+110F6", "U+110F7", "U+110F8", "U+110F9">>,
       <<"U+11136", "U+11137", "U+11138", "U+11139", "U+1113A", "U+1113B", "U+1113C", "U+1113D", "U+1113E", "U+1113F">>,
       <<"U+111D0", "U+111D1", "U+111D2", "U+111D3", "U+111D4", "U+111D5", "U+111D6", "U+111D7", "U+111D8", "U+111D9">>,
       <<"U+112F0", "U+112F1", "U+112F2", "U+112F3", "U+112F4", "U+112F5", "U+112F6", "U+112F7", "U+112F8", "U+112F9">>,
       <<"U+11450", "U+11451", "U+11452", "U+11453", "U+11454", "U+11455", "U+11456", "U+11457", "U+11458", "U+11459">>,
       <<"U+114D0", "U+114D1", "U+114D2", "U+114D3", "U+114D4", "U+114D5", "U+114D6", "U+114D7", "U+114D8", "U+114D9">>,
       <<"U+11650", "U+11651", "U+11652", "U+11653", "U+11654", "U+11655", "U+11656", "U+11657", "U+11658", "U+11659">>,
       <<"U+116C0", "U+116C1", "U+116C2", "U+116C3", "U+116C4", "U+116C5", "U+116C6", "U+116C7", "U+116C8", "U+116C9">>,
       <<"U+11730", "U+11731", "U+11732", "U+11733", "U+11734", "U+11735", "U+11736", "U+11737", "U+11738", "U+11739">>,
       <<"U+118E0", "U+118E1", "U+118E2", "U+118E3", "U+118E4", "U+118E5", "U+118E6", "U+118E7", "U+118E8", "U+118E9">>,
       <<"U+11950", "U+11951", "U+11952", "U+11953", "U+11954", "U+11955", "U+11956", "U+11957", "U+11958", "U+11959">>,
       <<"U+11C50", "U+11C51", "U+11C52", "U+11C53", "U+11C54", "U+11C55", "U+11C56", "U+11C57", "U+11C58", "U+11C59">>,
       <<"U+11D50", "U+11D51", "U+11D52", "U+11D53", "U+11D54", "U+11D55", "U+11D56", "U+11D57", "U+11D58", "U+11D59">>,
       <<"U+11DA0", "U+11DA1", "U+11DA2", "U+11DA3", "U+11DA4", "U+11DA5", "U+11DA6", "U+11DA7", "U+11DA8", "U+11DA9">>,
       <<"U+16A60", "U+16A61", "U+16A62", "U+16A63", "U+16A64", "U+16A65", "U+16A66", "U+16A67", "U+16A68", "U+16A69">>,
       <<"U+16AC0", "U+16AC1", "U+16AC2", "U+16AC3", "U+16AC4", "U+16AC5", "U+16AC6", "U+16AC7", "U+16AC8", "U+16AC9">>,
       <<"U+16B50", "U+16B51", "U+16B52", "U+16B53", "U+16B54", "U+16B55", "U+16B56", "U+16B57", "U+16B58", "U+16B59">>,
       <<"U+1D7CE", "U+1D7CF", "U+1D7D0", "U+1D7D1", "U+1D7D2", "U+1D7D3", "U+1D7D4", "U+1D7D5", "U+1D7D6", "U+1D7D7">>,
       <<"U+1D7D8", "U+1D7D9", "U+1D7DA", "U+1D7DB", "U+1D7DC", "U+1D7DD", "U+1D7DE", "U+1D7DF", "U+1D7E0", "U+1D7E1">>,
       <<"U+1D7E2", "U+1D7E3", "U+1D7E4", "U+1D7E5", "U+1D7E6", "U+1D7E7", "U+1D7E8", "U+1D7E9", "U+1D7EA", "U+1D7EB">>,
       <<"U+1D7EC", "U+1D7ED", "U+1D7EE", "U+1D7EF", "U+1D7F0", "U+1D7F1", "U+1D7F2", "U+1D7F3", "U+1D7F4", "U+1D7F5">>,
       <<"U+1D7F6", "U+1D7F7", "U+1D7F8", "U+1D7F9", "U+1D7FA", "U+1D7FB", "U+1D7FC", "U+1D7FD", "U+1D7FE", "U+1D7FF">>,
       <<"U+1E140", "U+1E141", "U+1E142", "U+1E143", "U+1E144", "U+1E145", "U+1E146", "U+1E147", "U+1E148", "U+1E149">>,
       <<"U+1E2F0", "U+1E2F1", "U+1E2F2", "U+1E2F3", "U+1E2F4", "U+1E2F5", "U+1E2F6", "U+1E2F7", "U+1E2F8", "U+1E2F9">>,
       <<"U+1E950", "U+1E951", "U+1E952", "U+1E953", "U+1E954", "U+1E955", "U+1E956", "U+1E957", "U+1E958", "U+1E959">>,
       <<"U+1FBF0", "U+1FBF1", "U+1FBF2", "U+1FBF3", "U+1FBF4", "U+1FBF5", "U+1FBF6", "U+1FBF7", "U+1FBF8", "U+1FBF9">>
    >>

DecimalDigitChars ==
    {DecimalDigits[r][i] : r \in 1..Len(DecimalDigits), i \in 1..10}

\* The characters that are digits for str.isdigit() without being decimal
\* digits (superscripts, subscripts, circled digits, ...); \d does not match
\* them.
OtherDigitChars ==
    {
      "²", "³", "¹", "U+1369", "U+136A", "U+136B", "U+136C", "U+136D",
      "U+136E", "U+136F", "U+1370", "U+1371", "U+19DA", "U+2070", "U+2074", "U+2075",
      "U+2076", "U+2077", "U+2078", "U+2079", "U+2080", "U+2081", "U+2082", "U+2083",
      "U+2084", "U+2085", "U+2086", "U+2087", "U+2088", "U+2089", "U+2460", "U+2461",
      "U+2462", "U+2463", "U+2464", "U+2465", "U+2466", "U+2467", "U+2468", "U+2474",
      "U+2475", "U+2476", "U+2477", "U+2478", "U+2479", "U+247A", "U+247B", "U+247C",
      "U+2488", "U+2489", "U+248A", "U+248B", "U+248C", "U+248D", "U+248E", "U+248F",
      "U+2490", "U+24EA", "U+24F5", "U+24F6", "U+24F7", "U+24F8", "U+24F9", "U+24FA",
      "U+24FB", "U+24FC", "U+24FD", "U+24FF", "U+2776", "U+2777", "U+2778", "U+2779",
      "U+277A", "U+277B", "U+277C", "U+277D", "U+277E", "U+2780", "U+2781", "U+2782",
      "U+2783", "U+2784", "U+2785", "U+2786", "U+2787", "U+2788", "U+278A", "U+278B",
      "U+278C", "U+278D", "U+278E", "U+278F", "U+2790", "U+2791", "U+2792", "U+10A40",
      "U+10A41", "U+10A42", "U+10A43", "U+10E60", "U+10E61", "U+10E62", "U+10E63", "U+10E64",
      "U+10E65", "U+10E66", "U+10E67", "U+10E68", "U+11052", "U+11053", "U+11054", "U+11055",
      "U+11056", "U+11057", "U+11058", "U+11059", "U+1105A", "U+1F100", "U+1F101", "U+1F102",
      "U+1F103", "U+1F104", "U+1F105", "U+1F106", "U+1F107", "U+1F108", "U+1F109", "U+1F10A"
    }

\* "0".."9"
DigitSeq == DecimalDigits[1]
Digits == {DigitSeq[i] : i \in 1..10}
\* "1".."9", the class [1-9]
Digits1to9 == Digits \ {"0"}

\* a character matched by \d (so not by \D): any decimal digit
IsDigit(c) == c \in DecimalDigitChars

\* the value int() gives each decimal digit
DecimalValue ==
    [c \in DecimalDigitChars |->
        CHOOSE d \in 0..9 : \E r \in 1..Len(DecimalDigits) : DecimalDigits[r][d + 1] = c]

DigitChar(d) == DigitSeq[d + 1]
CharVal(c) == DecimalValue[c]

Min(a, b) == IF a < b THEN a ELSE b

\* Python slice s[a:b] for 0 <= a <= b
Slice(s, a, b) == SubSeq(s, a + 1, Min(b, Len(s)))

\* Python len()
len(s) == Len(s)

\* str(n) for an integer n >= 0
RECURSIVE IntToChars(_)
IntToChars(n) ==
    IF n < 10 THEN <<DigitChar(n)>>
    ELSE IntToChars(n \div 10) \o <<DigitChar(n % 10)>>

\* int(s) for a non-empty all-digit text
RECURSIVE CharsToInt(_)
CharsToInt(s) ==
    IF s = <<>> THEN 0
    ELSE 10 * CharsToInt(SubSeq(s, 1, Len(s) - 1)) + CharVal(s[Len(s)])

\* dict.get(key, default)
Get(d, key, default) == IF key \in DOMAIN d THEN d[key] ELSE default

EmptyDict == <<>>

\* None, also what the JSON text null parses to: a value of its own, equal
\* to no dict, list or text
Null == "None" :> "None"
\* x is None.  The two are compared as printed, so that the test has a
\* value on numbers, lists and texts as well as on dicts.
IsNull(x) == ToString(x) = ToString(Null)

\* str(x) of a text or None
str(x) == IF IsNull(x) THEN <<"None">> ELSE x

\* a response body that is not JSON text
NotJson == "not JSON" :> "<html>"

\* truth value of a dict, list or str, or of None
Truthy(x) == DOMAIN x # {} /\ ~ IsNull(x)

\* str.isdigit(): the text is not empty and every character is a decimal
\* digit or one of the other digit characters
isdigit(s) ==
    s # <<>> /\ \A i \in 1..Len(s) : IsDigit(s[i]) \/ s[i] \in OtherDigitChars

\* 'N/A'
NA == <<"N", "/", "A">>

-----------------------------------------------------------------------------
\* format_cnpj and clean_cnpj (lines 13-34)

\* re.sub(r'\D', '', text)
re_sub_nondigits(text) == SelectSeq(text, IsDigit)

\* lines 15-17 of format_cnpj: the digits of the text, cut to the first 14
normalize(cnpj_text) ==
    LET clean == re_sub_nondigits(cnpj_text)
    IN  IF len(clean) > 14 THEN Slice(clean, 0, 14) ELSE clean

\* format_cnpj with the last group cut one digit short
format_cnpj_short(cnpj_text) ==
    LET clean == normalize(cnpj_text)
        p1 == IF len(clean) > 0 THEN Slice(clean, 0, 2) ELSE <<>>
        p2 == IF len(clean) > 2 THEN <<".">> \o Slice(clean, 2, 5) ELSE <<>>
        p3 == IF len(clean) > 5 THEN <<".">> \o Slice(clean, 5, 8) ELSE <<>>
        p4 == IF len(clean) > 8 THEN <<"/">> \o Slice(clean, 8, 12) ELSE <<>>
        p5 == IF len(clean) > 12 THEN <<"-">> \o Slice(clean, 12, 13) ELSE <<>>
    IN  p1 \o p2 \o p3 \o p4 \o p5

\* format_cnpj adding each separator as soon as the group before it is full
format_cnpj_eager(cnpj_text) ==
    LET clean == normalize(cnpj_text)
        p1 == IF len(clean) > 0 THEN Slice(clean, 0, 2) ELSE <<>>
        p2 == IF len(clean) >= 2 THEN <<".">> \o Slice(clean, 2, 5) ELSE <<>>
        p3 == IF len(clean) >= 5 THEN <<".">> \o Slice(clean, 5, 8) ELSE <<>>
        p4 == IF len(clean) >= 8 THEN <<"/">> \o Slice(clean, 8, 12) ELSE <<>>
        p5 == IF len(clean) >= 12 THEN <<"-">> \o Slice(clean, 12, 14) ELSE <<>>
    IN  p1 \o p2 \o p3 \o p4 \o p5

format_cnpj(cnpj_text) ==
    LET clean == normalize(cnpj_text)
        p1 == IF len(clean) > 0 THEN Slice(clean, 0, 2) ELSE <<>>
        p2 == IF len(clean) > 2 THEN <<".">> \o Slice(clean, 2, 5) ELSE <<>>
        p3 == IF len(clean) > 5 THEN <<".">> \o Slice(clean, 5, 8) ELSE <<>>
        p4 == IF len(clean) > 8 THEN <<"/">> \o Slice(clean, 8, 12) ELSE <<>>
        p5 == IF len(clean) > 12 THEN <<"-">> \o Slice(clean, 12, 14) ELSE <<>>
    IN  p1 \o p2 \o p3 \o p4 \o p5

clean_cnpj(formatted_cnpj) == re_sub_nondigits(formatted_cnpj)

-----------------------------------------------------------------------------
\* consultar_cnpj_api: the values it returns (lines 43-62)

InvalidMsg == <<"CNPJ inválido. Digite 14 dígitos numéricos.">>

InvalidFailure == [error |-> InvalidMsg]

\* the condition of line 44 accepting any non-empty digit text
api_gate_invalid_anylen(clean_cnpj_num) == ~ isdigit(clean_cnpj_num)

\* the condition of line 44 rejecting only texts shorter than 14
api_gate_invalid_short(clean_cnpj_num) ==
    ~ isdigit(clean_cnpj_num) \/ len(clean_cnpj_num) < 14

\* line 44: not clean_cnpj_num.isdigit() or len(clean_cnpj_num) != 14
api_gate_invalid(clean_cnpj_num) ==
    ~ isdigit(clean_cnpj_num) \/ len(clean_cnpj_num) # 14

UrlPrefix == <<"https://open.cnpja.com/office/">>

NotFoundFailure(clean_cnpj_num) ==
    [error |-> <<"CNPJ ">> \o clean_cnpj_num
               \o <<" não encontrado ou inválido na base da API.">>]

RemoteFailure(clean_cnpj_num, status_code) ==
    [error |-> <<"Erro ao consultar ">> \o clean_cnpj_num
               \o <<": Status ">> \o IntToChars(status_code)]

ConnectionFailure(e) == [error |-> <<"Erro de conexão: ", e>>]

\* str(e) of the error response.json() raises on a body that is not JSON
JsonErrorText == "Expecting value: line 1 column 1 (char 0)"

\* lines 51-60 for a status other than 429 and a body that response.json()
\* parses: what the call returns
status_outcome(status_code, body, clean_cnpj_num) ==
    IF status_code = 200 THEN body
    ELSE IF status_code = 404 THEN NotFoundFailure(clean_cnpj_num)
    ELSE RemoteFailure(clean_cnpj_num, status_code)

RateLimitMsg ==
    <<"Muitas requisições (429). Tentando novamente em 60 segundos...">>

-----------------------------------------------------------------------------
\* extract_data_for_display (lines 64-109)

IsLeap(y) == (y % 4 = 0 /\ y % 100 # 0) \/ y % 400 = 0

DaysIn(y, m) ==
    IF m = 2 THEN (IF IsLeap(y) THEN 29 ELSE 28)
    ELSE IF m \in {4, 6, 9, 11} THEN 30 ELSE 31

Pad2(n) == IF n < 10 THEN <<"0">> \o IntToChars(n) ELSE IntToChars(n)

\* (?P<m>1[0-2]|0[1-9]|[1-9]), the pattern of %m
matches_m(M) ==
    \/ Len(M) = 2 /\ M[1] = "1" /\ M[2] \in {"0", "1", "2"}
    \/ Len(M) = 2 /\ M[1] = "0" /\ M[2] \in Digits1to9
    \/ Len(M) = 1 /\ M[1] \in Digits1to9

\* (?P<d>3[0-1]|[1-2]\d|0[1-9]|[1-9]| [1-9]), the pattern of %d
matches_d(D) ==
    \/ Len(D) = 2 /\ D[1] = "3" /\ D[2] \in {"0", "1"}
    \/ Len(D) = 2 /\ D[1] \in {"1", "2"} /\ IsDigit(D[2])
    \/ Len(D) = 2 /\ D[1] = "0" /\ D[2] \in Digits1to9
    \/ Len(D) = 1 /\ D[1] \in Digits1to9
    \/ Len(D) = 2 /\ D[1] = " " /\ D[2] \in Digits1to9

\* (?P<Y>\d\d\d\d), the pattern of %Y
matches_Y(Y) == Len(Y) = 4 /\ \A i \in 1..4 : IsDigit(Y[i])

\* int() of a matched group: surrounding blanks are skipped
int_of(group) == CharsToInt(SelectSeq(group, LAMBDA c : c # " "))

\* datetime.strptime(s, '%Y-%m-%d'): << >> for ValueError, else <<[y, m, d]>>.
\* The whole text must match (?P<Y>...)-(?P<m>...)-(?P<d>...) and the date
\* must exist (year 1 at least, day within the month).
strptime_ymd(s) ==
    LET dashes == {i \in 1..Len(s) : s[i] = "-"}
    IN  IF Cardinality(dashes) # 2 THEN <<>>
        ELSE
          LET i1 == CHOOSE i \in dashes : \A j \in dashes : i <= j
              i2 == CHOOSE i \in dashes : \A j \in dashes : j <= i
              Y == SubSeq(s, 1, i1 - 1)
              M == SubSeq(s, i1 + 1, i2 - 1)
              D == SubSeq(s, i2 + 1, Len(s))
          IN  IF /\ matches_Y(Y) /\ matches_m(M) /\ matches_d(D)
                 /\ int_of(Y) >= 1
                 /\ int_of(D) <= DaysIn(int_of(Y), int_of(M))
              THEN <<[y |-> int_of(Y), m |-> int_of(M), d |-> int_of(D)]>>
              ELSE <<>>

\* dt.strftime("%d/%m/%Y") (the year as glibc prints it, without padding)
strftime_dmy(dt) ==
    Pad2(dt.d) \o <<"/">> \o Pad2(dt.m) \o <<"/">> \o IntToChars(dt.y)

\* lines 83-91
founded_display(data) ==
    IF "founded" \in DOMAIN data /\ Truthy(data["founded"])
    THEN LET dt == strptime_ymd(data["founded"])
         IN  IF dt # <<>> THEN strftime_dmy(dt[1]) ELSE NA
    ELSE NA

\* ", ".join(names)
RECURSIVE Join(_)
Join(names) ==
    IF names = <<>> THEN <<>>
    ELSE IF Len(names) = 1 THEN names[1]
    ELSE names[1] \o <<", ">> \o Join(Tail(names))

\* lines 99-107: the exception the members loop and the join end in, "" if
\* none.  A member or person that is None has no .get (lines 103-104); a
\* name that is None is no str for ", ".join (line 105).
members_raises(company) ==
    LET members == Get(company, "members", <<>>)
    IN  IF ~ Truthy(members) THEN ""
        ELSE IF \E i \in 1..Len(members) :
                   \/ IsNull(members[i])
                   \/ IsNull(Get(members[i], "person", EmptyDict))
        THEN "AttributeError"
        ELSE IF \E i \in 1..Len(members) :
                   IsNull(Get(Get(members[i], "person", EmptyDict), "name", NA))
        THEN "TypeError"
        ELSE ""

\* lines 99-107
members_display(company) ==
    LET members == Get(company, "members", <<>>)
    IN  IF Truthy(members)
        THEN Join([i \in 1..Len(members) |->
                     Get(Get(members[i], "person", EmptyDict), "name", NA)])
        ELSE NA

\* str() of mainActivity.id (a JSON number or null) or of the 'N/A' default
id_display(main_activity) ==
    IF "id" \notin DOMAIN main_activity THEN NA
    ELSE IF IsNull(main_activity["id"]) THEN str(Null)
    ELSE IntToChars(main_activity["id"])

\* lines 66-107: the exception extract_data_for_display ends in, "" if none.
\* `"error" in None` is a TypeError (line 66), format_cnpj(None) a TypeError
\* in re.sub (line 79, before any .get on the nested dicts), .get on None an
\* AttributeError (lines 80, 93-96).
extract_raises(resp) ==
    IF IsNull(resp) THEN "TypeError"
    ELSE IF "error" \in DOMAIN resp THEN ""
    ELSE IF IsNull(Get(resp, "taxId", NA)) THEN "TypeError"
    ELSE IF \E k \in {"company", "status", "address", "mainActivity"} :
                IsNull(Get(resp, k, EmptyDict))
    THEN "AttributeError"
    ELSE members_raises(Get(resp, "company", EmptyDict))

\* lines 69-107: the dict `extracted`, label -> text
extracted_fields(data) ==
    LET company == Get(data, "company", EmptyDict)
        address_data == Get(data, "address", EmptyDict)
        status_info == Get(data, "status", EmptyDict)
        main_activity == Get(data, "mainActivity", EmptyDict)
    IN  ("CNPJ" :> format_cnpj(Get(data, "taxId", NA)))
        @@ ("Razão Social" :> Get(company, "name", NA))
        @@ ("Nome Fantasia" :> Get(data, "alias", NA))
        @@ ("Data de Abertura" :> founded_display(data))
        @@ ("Situação Cadastral" :> Get(status_info, "text", NA))
        @@ ("Logradouro" :> Get(address_data, "street", NA))
        @@ ("Número" :> Get(address_data, "number", NA))
        @@ ("CNAE Principal" :> id_display(main_activity) \o <<" - ">>
                                  \o str(Get(main_activity, "text", NA)))
        @@ ("Sócios" :> members_display(company))

\* extract_data_for_display: the pair (extracted, error message), each
\* component None (<< >>) or a value, or the exception raised
extract_data_for_display(resp) ==
    IF extract_raises(resp) # ""
    THEN [extracted |-> <<>>, error |-> <<>>, raised |-> extract_raises(resp)]
    ELSE IF "error" \in DOMAIN resp
    THEN [extracted |-> <<>>,
          error |-> IF IsNull(resp["error"]) THEN <<>> ELSE <<resp["error"]>>,
          raised |-> ""]
    ELSE [extracted |-> <<extracted_fields(resp)>>, error |-> <<>>, raised |-> ""]

-----------------------------------------------------------------------------
\* Inputs: texts and registry records

\* "11222333000181"
Code14 == <<"1", "1", "2", "2", "2", "3", "3", "3", "0", "0", "0", "1", "8", "1">>
\* "11.222.333/0001-81"
Formatted18 ==
    <<"1", "1", ".", "2", "2", "2", ".", "3", "3", "3", "/",
      "0", "0", "0", "1", "-", "8", "1">>
\* "00000000000000"
Zeros14 == [i \in 1..14 |-> "0"]
\* "123"
Short123 == <<"1", "2", "3">>
\* "112223330001819": fifteen digits
Digits15 == Code14 \o <<"9">>
\* "abc"
Letters == <<"a", "b", "c">>
\* fourteen and fifteen times the fullwidth digit one
Fullwidth14 == [i \in 1..14 |-> "U+FF11"]
Fullwidth15 == [i \in 1..15 |-> "U+FF11"]

\* texts the user enters in the text input, all within max_chars
AppInputs ==
    {<<>>, Short123, Code14, Formatted18, Zeros14, Digits15, Letters,
     Fullwidth14, Fullwidth15}

\* the fullwidth digit two
FullwidthTwo == "U+FF12"

\* characters composed one by one: an ASCII digit, a fullwidth digit, a
\* separator and a superscript digit, which \D strips like the separator
ComposeChars == {"1", FullwidthTwo, ".", "²"}

CountOf(s, c) == Cardinality({i \in 1..Len(s) : s[i] = c})
CountNonDigits(s) == Cardinality({i \in 1..Len(s) : ~ IsDigit(s[i])})

\* a dict with the one key k, or no key
Opt(k, values) == {EmptyDict} \cup {k :> v : v \in values}

\* a nested dict under key k, absent or one of the given dicts
OptDict(k, dicts) == {EmptyDict} \cup {k :> d : d \in dicts}

FoundedValues ==
    { <<>>,
      <<"2", "0", "2", "0", "-", "0", "1", "-", "1", "5">>,
      <<"2", "0", "2", "0", "-", "1", "-", "5">>,
      <<"1", "5", "/", "0", "1", "/", "2", "0", "2", "0">>,
      <<"2", "0", "2", "1", "-", "0", "2", "-", "3", "0">>,
      <<"2", "0", "2", "0", "-", "0", "1", "-", " ", "5">>,
      <<"2", "0", "2", "0", "-", " ", "1", "-", "0", "5">>,
      <<"U+FF12", "U+FF10", "U+FF12", "U+FF10", "-", "0", "1", "-", "1", "U+FF15">>,
      <<"2", "0", "2", "0", "-", "0", "U+FF11", "-", "1", "5">> }

Member(name) == "person" :> ("name" :> name)

MemberLists ==
    { <<>>,
      <<Member(<<"Ana">>)>>,
      <<Member(<<"Ana">>), Member(<<"Rui">>)>>,
      <<Member(<<"Ana">>), EmptyDict>>,
      <<"person" :> EmptyDict>> }

CompanyDicts ==
    {n @@ m : n \in Opt("name", {<<"ACME LTDA">>}), m \in Opt("members", MemberLists)}

AddressDicts ==
    {s @@ n : s \in Opt("street", {<<"Rua A">>}), n \in Opt("number", {<<"10">>})}

StatusDicts == Opt("text", {<<"Ativa">>})

ActivityDicts ==
    {i @@ t : i \in Opt("id", {6201501}), t \in Opt("text", {<<"Software">>})}

\* registry records: every subset of the optional fields of a 200 body
AllRecords ==
    { t @@ a @@ f @@ c @@ ad @@ st @@ ma :
        t \in Opt("taxId", {Code14, Fullwidth14}),
        a \in Opt("alias", {<<"ACME">>}),
        f \in Opt("founded", FoundedValues),
        c \in OptDict("company", CompanyDicts),
        ad \in OptDict("address", AddressDicts),
        st \in OptDict("status", StatusDicts),
        ma \in OptDict("mainActivity", ActivityDicts) }

FullRecord ==
    ("taxId" :> Code14) @@ ("alias" :> <<"ACME">>)
    @@ ("founded" :> <<"2", "0", "2", "0", "-", "0", "1", "-", "1", "5">>)
    @@ ("company" :> (("name" :> <<"ACME LTDA">>)
                      @@ ("members" :> <<Member(<<"Ana">>), Member(<<"Rui">>)>>)))
    @@ ("address" :> (("street" :> <<"Rua A">>) @@ ("number" :> <<"10">>)))
    @@ ("status" :> ("text" :> <<"Ativa">>))
    @@ ("mainActivity" :> (("id" :> 6201501) @@ ("text" :> <<"Software">>)))

SparseRecord ==
    ("alias" :> <<"ACME">>) @@ ("company" :> ("name" :> <<"ACME LTDA">>))

\* a 200 body that itself carries an "error" key
ErrorKeyRecord == ("error" :> <<"quota">>) @@ ("alias" :> <<"ACME">>)

\* a 200 body whose "company" is null
NullCompanyRecord == ("alias" :> <<"ACME">>) @@ ("company" :> Null)

\* a 200 body with a member that is null
NullMemberRecord == "company" :> ("members" :> <<Member(<<"Ana">>), Null>>)

\* a 200 body whose "taxId" is null
NullTaxIdRecord == ("taxId" :> Null) @@ ("alias" :> <<"ACME">>)

\* a 200 body whose "founded" and company "members" are null
NullFoundedRecord ==
    ("taxId" :> Code14) @@ ("founded" :> Null)
    @@ ("company" :> (("name" :> <<"ACME LTDA">>) @@ ("members" :> Null)))

\* a 200 body with a member whose name is null
NullNameRecord == "company" :> ("members" :> <<"person" :> ("name" :> Null)>>)

\* a 200 body whose "error" is null
NullErrorRecord == "error" :> Null

\* what response.json() gives for the bodies the transport returns with
\* status 200: records, records with null parts, and null itself
Bodies ==
    {FullRecord, SparseRecord, EmptyDict, ErrorKeyRecord,
     NullCompanyRecord, NullMemberRecord, NullTaxIdRecord, NullFoundedRecord,
     NullNameRecord, NullErrorRecord, Null}

\* how the installed requests raises the error of response.json(): as a
\* requests.exceptions.JSONDecodeError, which is a RequestException (2.27
\* and later), or as a plain ValueError (before)
JsonErrorKinds == {"RequestException", "ValueError"}

\* statuses other than 200, 404 and 429
OtherStatuses == {400, 500, 503}

\* str(e) of a requests.exceptions.RequestException
ExceptionTexts == {"timeout", "connection refused"}

-----------------------------------------------------------------------------
\* Values of the state

NoResponse == [kind |-> "none", status_code |-> 0, body |-> EmptyDict, e |-> ""]
HttpResponse(status_code, body) ==
    [kind |-> "http", status_code |-> status_code, body |-> body, e |-> ""]
Raised(e) == [kind |-> "exception", status_code |-> 0, body |-> EmptyDict, e |-> e]
\* requests.get ran out of stack before it answered
Overflowed ==
    [kind |-> "recursion", status_code |-> 0, body |-> EmptyDict, e |-> "RecursionError"]

\* entries of trace
GetCall(u, r) == [call |-> "requests.get", url |-> u, response |-> r, seconds |-> 0]
WarningCall == [call |-> "st.warning", url |-> <<>>, response |-> NoResponse, seconds |-> 0]
SleepCall(n) == [call |-> "time.sleep", url |-> <<>>, response |-> NoResponse, seconds |-> n]

Count429(tr) ==
    Cardinality({i \in 1..Len(tr) :
                   tr[i].call = "requests.get" /\ tr[i].response.status_code = 429})

Msg(kind, text) == [kind |-> kind, text |-> text]

\* lines 117-122: what every script run shows before the button handlers
script_top_messages(text) ==
    LET shown == format_cnpj(text)
    IN  IF text # <<>> /\ clean_cnpj(text) # clean_cnpj(shown)
        THEN <<Msg("info", <<"CNPJ formatado: **">> \o shown \o <<"**">>)>>
        ELSE <<>>

\* line 152: the results section is rendered
ResultsShown ==
    /\ "last_consulted_data" \in DOMAIN session_state
    /\ Truthy(session_state["last_consulted_data"])

Stored(data, raw) ==
    ("last_consulted_data" :> data) @@ ("api_raw_response" :> raw)

\* line 129: len(cleaned_cnpj) != 14 or not cleaned_cnpj.isdigit()
handler_gate_invalid(cleaned_cnpj) ==
    len(cleaned_cnpj) # 14 \/ ~ isdigit(cleaned_cnpj)

-----------------------------------------------------------------------------
\* The script and consultar_cnpj_api as steps

\* the export buttons a script run that reaches its end puts on the page
\* (lines 152, 192, 213), given the session state it ends with
ButtonsFor(state) ==
    IF "last_consulted_data" \in DOMAIN state /\ Truthy(state["last_consulted_data"])
    THEN {"excel", "txt"} ELSE {}

\* the script run ends in an uncaught exception inside the handler of the
\* "Consultar CNPJ" button (lines 133-140): Streamlit shows it, the session
\* is not written and the results section is not reached
HandlerRaises(name, msgs) ==
    /\ messages' = Append(msgs, Msg("exception", <<name>>))
    /\ exc' = name
    /\ rendered' = {}
    /\ UNCHANGED session_state

\* lines 135-149: the handler once consultar_cnpj_api has returned ret
HandlerTail(ret, msgs) ==
    IF IsNull(ret)
    THEN HandlerRaises("TypeError", msgs) /\ UNCHANGED extract_out
    ELSE IF "error" \in DOMAIN ret
    THEN /\ messages' = Append(msgs, Msg("error", <<"Erro na consulta: ">> \o str(ret["error"])))
         /\ session_state' = Stored(EmptyDict, EmptyDict)
         /\ exc' = ""
         /\ rendered' = ButtonsFor(session_state')
         /\ UNCHANGED extract_out
    ELSE LET out == extract_data_for_display(ret)
         IN  /\ extract_out' = <<out>>
             /\ IF out.raised # ""
                THEN HandlerRaises(out.raised, msgs)
                ELSE /\ IF out.error # <<>>
                        THEN /\ messages' = Append(msgs,
                                    Msg("error", <<"Erro ao processar dados: ">> \o out.error[1]))
                             /\ session_state' = Stored(EmptyDict, EmptyDict)
                        ELSE /\ messages' = Append(msgs,
                                    Msg("success", <<"Consulta concluída com sucesso!">>))
                             /\ session_state' = Stored(out.extracted[1], ret)
                     /\ exc' = ""
                     /\ rendered' = ButtonsFor(session_state')

\* the outermost consultar_cnpj_api frame returns ret to its caller
Return(who, ret, msgs) ==
    /\ pc' = "idle"
    /\ api_response' = <<ret>>
    /\ depth' = 0
    /\ IF who = "app"
       THEN HandlerTail(ret, msgs)
       ELSE /\ messages' = msgs
            /\ exc' = ""
            /\ UNCHANGED <<session_state, extract_out, rendered>>

\* an exception that line 61 does not catch leaves every consultar_cnpj_api
\* frame and reaches the caller
Raise(who, name, msgs) ==
    /\ pc' = "idle"
    /\ api_response' = <<>>
    /\ depth' = 0
    /\ UNCHANGED extract_out
    /\ IF who = "app"
       THEN HandlerRaises(name, msgs)
       ELSE /\ messages' = msgs
            /\ exc' = name
            /\ UNCHANGED <<session_state, rendered>>

\* lines 43-47: entry of consultar_cnpj_api(arg), up to the call of requests.get
Enter(who, arg, msgs) ==
    LET clean_cnpj_num == clean_cnpj(arg)
    IN  IF api_gate_invalid(clean_cnpj_num)
        THEN /\ UNCHANGED url
             /\ Return(who, InvalidFailure, msgs)
        ELSE /\ url' = UrlPrefix \o clean_cnpj_num
             /\ pc' = "request"
             /\ api_response' = <<>>
             /\ depth' = depth + 1
             /\ messages' = msgs
             /\ exc' = ""
             /\ UNCHANGED <<session_state, extract_out, rendered>>

\* a script run caused by a new value of the text input (lines 117-122, no
\* button pressed; the results section only reads the session state)
Rerun(text) ==
    /\ cnpj_input' = text
    /\ display_cnpj' = format_cnpj(text)
    /\ messages' = script_top_messages(text)
    /\ exc' = ""
    /\ rendered' = ButtonsFor(session_state)
    /\ UNCHANGED <<session_state, pc, caller, cnpj, url, response, trace,
                   api_response, extract_out, depth>>

\* the user enters a text
ChangeInput(text) ==
    /\ pc = "idle"
    /\ Len(text) <= max_chars
    /\ text # cnpj_input
    /\ Rerun(text)

\* a character is appended to the text input, whatever was looked up before
ComposeInput(c) ==
    /\ pc = "idle"
    /\ Len(cnpj_input) < MaxLen
    /\ Len(cnpj_input) < max_chars
    /\ c # "1" => Len(cnpj_input) - CountOf(cnpj_input, "1") < MaxOther
    /\ Rerun(Append(cnpj_input, c))

\* lines 124-133: the "Consultar CNPJ" button
ClickConsultar ==
    /\ pc = "idle"
    /\ UNCHANGED cnpj_input
    /\ display_cnpj' = format_cnpj(cnpj_input)
    /\ LET msgs0 == script_top_messages(cnpj_input)
           cleaned_cnpj == clean_cnpj(cnpj_input)
       IN  IF ~ Truthy(cnpj_input)
           THEN /\ messages' = Append(msgs0,
                       Msg("warning", <<"Por favor, digite um CNPJ para consultar.">>))
                /\ exc' = ""
                /\ rendered' = ButtonsFor(session_state)
                /\ UNCHANGED <<session_state, pc, caller, cnpj, url, response, trace,
                               api_response, extract_out, depth>>
           ELSE IF handler_gate_invalid(cleaned_cnpj)
           THEN /\ messages' = Append(msgs0, Msg("error", InvalidMsg))
                /\ exc' = ""
                /\ rendered' = ButtonsFor(session_state)
                /\ UNCHANGED <<session_state, pc, caller, cnpj, url, response, trace,
                               api_response, extract_out, depth>>
           ELSE /\ caller' = "app"
                /\ cnpj' = cleaned_cnpj
                /\ trace' = <<>>
                /\ response' = NoResponse
                /\ Enter("app", cleaned_cnpj, msgs0)

\* consultar_cnpj_api(text) called directly, outside the script, with a
\* fresh record of the notices shown
DirectCall(text) ==
    /\ pc = "idle"
    /\ caller' = "direct"
    /\ cnpj' = text
    /\ trace' = <<>>
    /\ response' = NoResponse
    /\ Enter("direct", text, <<>>)
    /\ UNCHANGED <<cnpj_input, display_cnpj>>

\* lines 49-52 and 61-62: requests.get answers 200 with a body that is not
\* JSON and response.json() raises; kind tells whether line 61 catches it
RequestNotJson(kind) ==
    /\ pc = "request"
    /\ response' = HttpResponse(200, NotJson)
    /\ trace' = Append(trace, GetCall(url, response'))
    /\ IF kind = "RequestException"
       THEN Return(caller, ConnectionFailure(JsonErrorText), messages)
       ELSE Raise(caller, "JSONDecodeError", messages)
    /\ UNCHANGED <<cnpj_input, display_cnpj, caller, cnpj, url>>

\* lines 49-52: requests.get answers 200 with a JSON body
RequestOK(body) ==
    /\ pc = "request"
    /\ response' = HttpResponse(200, body)
    /\ trace' = Append(trace, GetCall(url, response'))
    /\ Return(caller, status_outcome(200, body, clean_cnpj(cnpj)), messages)
    /\ UNCHANGED <<cnpj_input, display_cnpj, caller, cnpj, url>>

\* lines 49-60: requests.get answers a status other than 200 and 429
RequestFailed(status_code) ==
    /\ pc = "request"
    /\ response' = HttpResponse(status_code, EmptyDict)
    /\ trace' = Append(trace, GetCall(url, response'))
    /\ Return(caller, status_outcome(status_code, EmptyDict, clean_cnpj(cnpj)), messages)
    /\ UNCHANGED <<cnpj_input, display_cnpj, caller, cnpj, url>>

\* lines 49-55: requests.get answers 429; the notice is shown and the call
\* enters time.sleep
RequestRateLimited ==
    /\ pc = "request"
    /\ response' = HttpResponse(429, EmptyDict)
    /\ trace' = trace \o <<GetCall(url, response'), WarningCall>>
    /\ messages' = Append(messages, Msg("warning", RateLimitMsg))
    /\ pc' = "sleep"
    /\ UNCHANGED <<cnpj_input, display_cnpj, session_state, caller, cnpj, url,
                   api_response, extract_out, depth, exc, rendered>>

\* line 49 in the deepest consultar_cnpj_api frame the stack has room for:
\* requests.get is called and needs more frames of its own than are left, so
\* RecursionError is raised inside it; it is not a RequestException and
\* leaves every frame.  Whether the stack gives out here or at the next
\* call of line 56 depends on how deep the installed requests.get nests.
RequestRecursionError ==
    /\ pc = "request"
    /\ depth = RecursionLimit
    /\ response' = Overflowed
    /\ trace' = Append(trace, GetCall(url, response'))
    /\ Raise(caller, "RecursionError", messages)
    /\ UNCHANGED <<cnpj_input, display_cnpj, caller, cnpj, url>>

\* lines 55-56: time.sleep(60) ends and consultar_cnpj_api(cnpj) is called
\* again, in a new frame on top of the waiting one; with no frame left the
\* call raises RecursionError (in clean_cnpj, line 43), which is not a
\* RequestException
Sleep60 ==
    /\ pc = "sleep"
    /\ trace' = Append(trace, SleepCall(SLEEP_SECONDS))
    /\ IF depth < RecursionLimit
       THEN Enter(caller, cnpj, messages)
       ELSE Raise(caller, "RecursionError", messages) /\ UNCHANGED url
    /\ UNCHANGED <<cnpj_input, display_cnpj, caller, cnpj, response>>

\* lines 49 and 61-62 sleeping and retrying after a transport error
RequestException_retry(e) ==
    /\ pc = "request"
    /\ response' = Raised(e)
    /\ trace' = Append(trace, GetCall(url, response'))
    /\ pc' = "sleep"
    /\ UNCHANGED <<cnpj_input, display_cnpj, messages, session_state, caller, cnpj,
                   url, api_response, extract_out, depth, exc, rendered>>

\* lines 49 and 61-62: requests.get raises a RequestException
RequestException(e) ==
    /\ pc = "request"
    /\ response' = Raised(e)
    /\ trace' = Append(trace, GetCall(url, response'))
    /\ Return(caller, ConnectionFailure(e), messages)
    /\ UNCHANGED <<cnpj_input, display_cnpj, caller, cnpj, url>>

\* lines 192-210: the "Salvar em Excel" button, when the page shows it.
\* df_to_export.to_excel(index=False) lacks the required excel_writer
\* argument, so the run ends in a TypeError at line 204: the session state
\* is not written and the run does not reach the button of line 213.
ClickExcel ==
    /\ pc = "idle"
    /\ "excel" \in rendered
    /\ ResultsShown
    /\ display_cnpj' = format_cnpj(cnpj_input)
    /\ messages' = Append(script_top_messages(cnpj_input),
                          Msg("exception", <<"TypeError">>))
    /\ exc' = "TypeError"
    /\ rendered' = {"excel"}
    /\ UNCHANGED <<cnpj_input, session_state, pc, caller, cnpj, url, response, trace,
                   api_response, extract_out, depth>>

\* lines 213-245: the "Gerar Cartão CNPJ TXT" button, when the page shows it
ClickTXT ==
    /\ pc = "idle"
    /\ "txt" \in rendered
    /\ ResultsShown
    /\ display_cnpj' = format_cnpj(cnpj_input)
    /\ messages' = Append(script_top_messages(cnpj_input),
          IF Truthy(session_state["api_raw_response"])
          THEN Msg("download", <<"Cartao_CNPJ_">>
                     \o clean_cnpj(session_state["last_consulted_data"]["CNPJ"])
                     \o <<".txt">>)
          ELSE Msg("warning", <<"Nenhum dado para gerar Cartão CNPJ TXT.">>))
    /\ exc' = ""
    /\ rendered' = ButtonsFor(session_state)
    /\ UNCHANGED <<cnpj_input, session_state, pc, caller, cnpj, url, response, trace,
                   api_response, extract_out, depth>>

\* extract_data_for_display applied to the value in api_response
ExtractCall ==
    /\ pc = "extract"
    /\ extract_out' = <<extract_data_for_display(api_response[1])>>
    /\ exc' = extract_data_for_display(api_response[1]).raised
    /\ pc' = "idle"
    /\ UNCHANGED <<cnpj_input, display_cnpj, messages, session_state, caller, cnpj,
                   url, response, trace, api_response, depth, rendered>>

-----------------------------------------------------------------------------
\* Specifications

Init ==
    /\ cnpj_input = <<>>
    /\ display_cnpj = <<>>
    /\ messages = <<>>
    /\ session_state = EmptyDict
    /\ pc = "idle"
    /\ caller = "none"
    /\ cnpj = <<>>
    /\ url = <<>>
    /\ response = NoResponse
    /\ trace = <<>>
    /\ api_response = <<>>
    /\ extract_out = <<>>
    /\ depth = 0
    /\ exc = ""
    /\ rendered = {}

\* the application: the user's actions and the transport's answers
Next ==
    \/ \E text \in AppInputs : ChangeInput(text)
    \/ ClickConsultar
    \/ \E body \in Bodies : RequestOK(body)
    \/ \E kind \in JsonErrorKinds : RequestNotJson(kind)
    \/ \E status_code \in {404} \cup OtherStatuses : RequestFailed(status_code)
    \/ RequestRateLimited
    \/ Sleep60
    \/ RequestRecursionError
    \/ \E e \in ExceptionTexts : RequestException(e)
    \/ ClickExcel
    \/ ClickTXT

Spec == Init /\ [][Next]_vars

\* every composed text against the codec and the two 14-digit checks: the
\* text is composed, at any point handed to consultar_cnpj_api directly or
\* through the button, and composed further after that; a request that is
\* made is answered with a failure status or a transport error
NextGate ==
    \/ \E c \in ComposeChars : ComposeInput(c)
    \/ DirectCall(cnpj_input)
    \/ ClickConsultar
    \/ \E status_code \in {404} \cup OtherStatuses : RequestFailed(status_code)
    \/ \E e \in ExceptionTexts : RequestException(e)

SpecGate == Init /\ [][NextGate]_vars

\* the application together with direct calls of consultar_cnpj_api on each
\* text, against the transport
NextLookup ==
    \/ Next
    \/ \E text \in AppInputs : DirectCall(text)

SpecLookup == Init /\ [][NextLookup]_vars

\* extract_data_for_display applied to every record and to failures
InitExtract ==
    /\ cnpj_input = <<>>
    /\ display_cnpj = <<>>
    /\ messages = <<>>
    /\ session_state = EmptyDict
    /\ pc = "extract"
    /\ caller = "direct"
    /\ cnpj = <<>>
    /\ url = <<>>
    /\ response = NoResponse
    /\ trace = <<>>
    /\ api_response \in {<<r>> : r \in AllRecords \cup {ErrorKeyRecord, InvalidFailure}}
    /\ extract_out = <<>>
    /\ depth = 0
    /\ exc = ""
    /\ rendered = {}

NextExtract == ExtractCall

SpecExtract == InitExtract /\ [][NextExtract]_vars

-----------------------------------------------------------------------------
\* Properties

\* the returned value is the 14-digit failure
IsInvalidFailure(r) == "error" \in DOMAIN r /\ r["error"] = InvalidMsg

\* the last script run rejected the input at the button's 14-digit check
ButtonRejected ==
    /\ messages # <<>>
    /\ messages[Len(messages)] = Msg("error", InvalidMsg)

\* the current/last consultar_cnpj_api call got past its 14-digit check
\* and called requests.get
GatePassed == pc \in {"request", "sleep"} \/ trace # <<>>

\* a step of the "Consultar CNPJ" button that calls requests.get
ButtonRequests ==
    pc = "idle" /\ pc' = "request" /\ caller' = "app" /\ cnpj_input' = cnpj_input

\* what holds of every lookup that was made or refused
NoRequestUnlessFourteenDigits ==
    /\ (caller = "direct" /\ len(clean_cnpj(cnpj)) # 14) =>
          /\ pc = "idle"
          /\ api_response = <<InvalidFailure>>
          /\ trace = <<>>
          /\ response = NoResponse
    /\ GatePassed =>
          /\ len(clean_cnpj(cnpj)) = 14
          /\ isdigit(clean_cnpj(cnpj))
          /\ \A i \in 1..Len(trace) :
                trace[i].call = "requests.get" =>
                    trace[i].url = UrlPrefix \o clean_cnpj(cnpj)
    /\ caller = "app" => len(cnpj) = 14 /\ isdigit(cnpj)
    /\ caller = "none" => pc = "idle" /\ trace = <<>> /\ api_response = <<>>
    /\ ButtonRejected => pc = "idle"

\* C1: a text whose digits are not exactly 14 never reaches the transport
\* (a digit being a decimal digit, what clean_cnpj keeps of a text).
\* A direct call of consultar_cnpj_api with such a text returns the failure
\* "CNPJ inválido. Digite 14 dígitos numéricos." with no request made, and
\* the "Consultar CNPJ" button calls requests.get only when the text in the
\* input at that moment has passed the 14-digit check, with its digits as
\* the code; this holds also when the text is edited after a lookup.
C1_NoRequestUnlessFourteenDigits ==
    /\ []NoRequestUnlessFourteenDigits
    /\ [][ButtonRequests =>
            /\ len(clean_cnpj(cnpj_input)) = 14
            /\ cnpj' = clean_cnpj(cnpj_input)
            /\ url' = UrlPrefix \o clean_cnpj(cnpj_input)
            /\ trace' = <<>>]_vars

\* C1 witness: a direct call with 13 digits and a separator was refused
C1_Witness ==
    /\ caller = "direct"
    /\ len(clean_cnpj(cnpj)) = 13
    /\ CountNonDigits(cnpj) = 1
    /\ api_response = <<InvalidFailure>>
    /\ trace = <<>>

\* C2 as stated: validation succeeds exactly when the digits of the text cut
\* to the first 14 number 14, so a text with more than 14 digits is accepted.
C2_Original ==
    /\ caller = "direct" => (GatePassed <=> len(normalize(cnpj)) = 14)
    /\ ButtonRejected => len(normalize(cnpj_input)) # 14

\* what holds of the outcome of the two 14-digit checks
ValidIffExactlyFourteenDigits ==
    /\ caller = "direct" =>
          /\ GatePassed <=> len(clean_cnpj(cnpj)) = 14
          /\ ~ GatePassed => (pc = "idle" /\ api_response = <<InvalidFailure>>)
          /\ GatePassed /\ api_response # <<>> => ~ IsInvalidFailure(api_response[1])
    /\ caller = "app" => len(cnpj) = 14 /\ GatePassed
    /\ ButtonRejected => len(clean_cnpj(cnpj_input)) # 14

\* C2 amended: validation succeeds exactly when the digits of the text, with
\* nothing cut off, number 14; more than 14 digits are rejected like fewer,
\* with the InvalidInput failure.  The button goes on to the lookup exactly
\* for such a text, whatever was looked up before.
C2_ValidIffExactlyFourteenDigits ==
    /\ []ValidIffExactlyFourteenDigits
    /\ [][/\ ButtonRequests => len(clean_cnpj(cnpj_input)) = 14
          /\ (pc = "idle" /\ ButtonRejected' /\ messages' # messages) =>
                /\ cnpj_input' = cnpj_input
                /\ len(clean_cnpj(cnpj_input)) # 14
                /\ UNCHANGED <<caller, cnpj, trace, api_response, session_state>>]_vars

\* C2 witness: after a lookup of 14 digits through the button a fifteenth
\* digit was typed, and the button rejected the text although its first 14
\* digits form a code
C2_Witness ==
    /\ caller = "app"
    /\ len(cnpj) = 14
    /\ trace # <<>>
    /\ len(clean_cnpj(cnpj_input)) = 15
    /\ len(normalize(cnpj_input)) = 14
    /\ ButtonRejected

\* C7: for every text s, format(normalize(s)) has at most 18 characters and
\* its digits, in order, are normalize(s).
C7_FormatKeepsDigits ==
    LET n == normalize(cnpj_input)
        f == format_cnpj(n)
    IN  /\ Len(f) <= 18
        /\ re_sub_nondigits(f) = n
        /\ Len(display_cnpj) <= 18
        /\ re_sub_nondigits(display_cnpj) = n

\* C7 witness: a text with more than 14 digits, an ASCII and a fullwidth one
\* among them, shown as 18 characters
C7_Witness ==
    /\ Len(re_sub_nondigits(cnpj_input)) > 14
    /\ CountOf(cnpj_input, FullwidthTwo) = 1
    /\ Len(display_cnpj) = 18
    /\ display_cnpj = format_cnpj(normalize(cnpj_input))

\* the separator that stands before the digit at 0-based index k
SepBefore(k) ==
    IF k \in {2, 5} THEN <<".">>
    ELSE IF k = 8 THEN <<"/">>
    ELSE IF k = 12 THEN <<"-">>
    ELSE <<>>

\* d with each separator put before the digit at its index
RECURSIVE Punctuate(_)
Punctuate(d) ==
    IF d = <<>> THEN <<>>
    ELSE Punctuate(SubSeq(d, 1, Len(d) - 1)) \o SepBefore(Len(d) - 1) \o <<d[Len(d)]>>

\* every character of d is a decimal digit
IsDigitSeq(d) == \A i \in 1..Len(d) : IsDigit(d[i])

\* C8: for a digit sequence d of length 0 to 14, format(d) is d with "."
\* before the digits at index 2 and 5, "/" before index 8 and "-" before
\* index 12, a separator being present only when that digit is; "" gives "",
\* "112" gives "11.2", 14 digits give NN.NNN.NNN/NNNN-NN.
C8_FormatInsertsSeparators ==
    /\ IsDigitSeq(cnpj_input) /\ Len(cnpj_input) <= 14 =>
          /\ display_cnpj = Punctuate(cnpj_input)
          /\ display_cnpj # <<>> => IsDigit(display_cnpj[Len(display_cnpj)])
          /\ Len(cnpj_input) = 14 => Len(display_cnpj) = 18
    /\ format_cnpj(<<>>) = <<>>
    /\ format_cnpj(<<"1", "1", "2">>) = <<"1", "1", ".", "2">>
    /\ format_cnpj(Code14) = Formatted18

\* C8 witness: twelve digits shown with three separators and no trailing "-"
C8_Witness ==
    /\ IsDigitSeq(cnpj_input)
    /\ Len(cnpj_input) = 12
    /\ CountOf(cnpj_input, FullwidthTwo) = 1
    /\ Len(display_cnpj) = 15

\* name of every member of the company, 'N/A' where the member has none
MemberNames(r) ==
    LET ms == r["company"]["members"]
    IN  [i \in 1..Len(ms) |->
           IF "person" \in DOMAIN ms[i] /\ "name" \in DOMAIN ms[i]["person"]
           THEN ms[i]["person"]["name"] ELSE NA]

Has(r, k) == k \in DOMAIN r
Has2(r, k1, k2) == k1 \in DOMAIN r /\ k2 \in DOMAIN r[k1]

\* C9: for a record with any subset of the optional fields absent,
\* extract_data_for_display does not fail and every label whose source field
\* is absent shows 'N/A', the "CNPJ" label included.
C9_AbsentFieldsShowNA ==
    (pc = "idle" /\ caller = "direct" /\ extract_out # <<>>
        /\ "error" \notin DOMAIN api_response[1]) =>
      LET r == api_response[1]
          out == extract_out[1]
          ext == out.extracted[1]
      IN  /\ out.error = <<>>
          /\ out.extracted # <<>>
          /\ ~ Has(r, "taxId") => ext["CNPJ"] = NA
          /\ ~ Has2(r, "company", "name") => ext["Razão Social"] = NA
          /\ ~ Has(r, "alias") => ext["Nome Fantasia"] = NA
          /\ ~ Has(r, "founded") => ext["Data de Abertura"] = NA
          /\ ~ Has2(r, "status", "text") => ext["Situação Cadastral"] = NA
          /\ ~ Has2(r, "address", "street") => ext["Logradouro"] = NA
          /\ ~ Has2(r, "address", "number") => ext["Número"] = NA
          /\ ~ Has2(r, "mainActivity", "id") =>
                SubSeq(ext["CNAE Principal"], 1, 3) = NA
          /\ ~ Has2(r, "mainActivity", "text") =>
                SubSeq(ext["CNAE Principal"], Len(ext["CNAE Principal"]) - 2,
                       Len(ext["CNAE Principal"])) = NA
          /\ ~ Has2(r, "company", "members") => ext["Sócios"] = NA
          /\ (Has2(r, "company", "members") /\ r["company"]["members"] # <<>>) =>
                ext["Sócios"] = Join(MemberNames(r))

\* the stored pair of a successful lookup that returned record r
StoredFor(r) == Stored(extracted_fields(r), r)

\* the last lookup made through the button has ended, by a return or by an
\* exception
ButtonLookupEnded == pc = "idle" /\ caller = "app"

\* C10: the stored result is that of the most recent lookup that reached
\* the registry client: its extracted mapping and raw response if it
\* succeeded, both empty if it ended in a failure; the two are written
\* together, so no state mixes two lookups or keeps the data of an earlier
\* lookup after a later one has ended.
C10_SessionIsLastLookup ==
    /\ DOMAIN session_state \in {{}, {"last_consulted_data", "api_raw_response"}}
    /\ caller = "none" => session_state = EmptyDict
    /\ ButtonLookupEnded =>
          IF /\ api_response # <<>>
             /\ extract_raises(api_response[1]) = ""
             /\ "error" \notin DOMAIN api_response[1]
          THEN session_state = StoredFor(api_response[1])
          ELSE /\ Get(session_state, "last_consulted_data", EmptyDict) = EmptyDict
               /\ Get(session_state, "api_raw_response", EmptyDict) = EmptyDict

\* a lookup that reached requests.get has ended, by a return or by an
\* exception
LookupEnded == pc = "idle" /\ trace # <<>>

\* the 14-digit code of the current/last lookup
LookupCode == clean_cnpj(cnpj)

\* positions of the requests.get calls in the trace
Gets == {i \in 1..Len(trace) : trace[i].call = "requests.get"}

\* rate-limit notices shown by the current run
Notices == {i \in 1..Len(messages) : messages[i] = Msg("warning", RateLimitMsg)}

\* C3: for a valid code and an answer whose status is not 429, the lookup
\* makes exactly one request and returns by status: 200 the parsed body, 404
\* the not-found failure naming the code, any other status the remote-error
\* failure naming the code and the status.  None of these is retried.
C3_ClassifiedByStatus ==
    (LookupEnded /\ response.kind = "http" /\ response.status_code # 429) =>
      /\ api_response # <<>>
      /\ trace[Len(trace)] = GetCall(UrlPrefix \o LookupCode, response)
      /\ len(LookupCode) = 14
      /\ Cardinality({i \in Gets : trace[i].response.status_code # 429}) = 1
      /\ Count429(trace) = 0 => Len(trace) = 1
      /\ response.status_code = 200 => api_response = <<response.body>>
      /\ response.status_code = 404 =>
            api_response = <<[error |-> <<"CNPJ ">> \o LookupCode
                      \o <<" não encontrado ou inválido na base da API.">>]>>
      /\ response.status_code \notin {200, 404} =>
            api_response = <<[error |-> <<"Erro ao consultar ">> \o LookupCode
                      \o <<": Status ">> \o IntToChars(response.status_code)]>>

\* C4: when the transport answers 429 to the first k requests and then
\* something else, the lookup makes exactly k+1 requests, all for the same
\* 14-digit code, shows one notice and then waits 60 seconds once after each
\* 429 and before the next request, and returns only the outcome of the last
\* request (the record when it is 200); a 429 is never returned.
C4_RetryTransparentOrdered ==
    /\ \A i \in 1..Len(trace) :
          /\ i % 3 = 1 =>
                /\ trace[i].call = "requests.get"
                /\ trace[i].url = UrlPrefix \o LookupCode
                /\ i < Len(trace) => trace[i].response.status_code = 429
          /\ i % 3 = 2 =>
                /\ trace[i] = WarningCall
                /\ trace[i - 1].response.status_code = 429
          /\ i % 3 = 0 => trace[i] = SleepCall(60)
    /\ trace # <<>> => len(LookupCode) = 14 /\ isdigit(LookupCode)
    /\ pc = "request" => Len(trace) = 3 * Count429(trace)
    /\ pc = "sleep" => Len(trace) = 3 * Count429(trace) - 1
    /\ pc \in {"request", "sleep"} =>
          /\ api_response = <<>>
          /\ Cardinality(Notices) = Count429(trace)
    /\ LookupEnded =>
          /\ api_response # <<>>
          /\ Len(trace) = 3 * Count429(trace) + 1
          /\ Cardinality(Gets) = Count429(trace) + 1
          /\ trace[Len(trace)].response = response
          /\ response.kind = "http" =>
                /\ response.status_code # 429
                /\ response.status_code = 200 => api_response = <<response.body>>
                /\ response.status_code # 200 =>
                      /\ "error" \in DOMAIN api_response[1]
                      /\ api_response[1] # RemoteFailure(LookupCode, 429)

\* C5: the retry on 429 has no cap.  Whatever the number of 429 answers so
\* far, a 429 leads to the wait and the wait to a new request, without a
\* return and without an exception; the lookup ends exactly at a request
\* that is answered with a status other than 429 or that fails in the
\* transport, so while the answers are 429 it goes on requesting.
C5_RetryWithoutCap ==
    [][ /\ (pc = "request" /\ response'.kind = "http"
              /\ response'.status_code = 429) =>
                (pc' = "sleep" /\ api_response' = <<>>)
        /\ pc = "sleep" =>
                (pc' = "request" /\ api_response' = <<>> /\ exc' = ""
                   /\ url' = url /\ depth' > 0)
        /\ (pc \in {"request", "sleep"} /\ pc' = "idle") =>
                /\ pc = "request"
                /\ \/ response'.kind = "exception"
                   \/ response'.kind = "http" /\ response'.status_code # 429
        /\ (pc = "request" /\ ~ (response'.kind = "http"
                                    /\ response'.status_code = 429)) =>
                pc' = "idle" ]_vars

\* C6: a transport failure on any request of a lookup, the first or one after
\* a wait, ends it at once with the failure "Erro de conexão: {details}": no
\* further request, no wait, and the caller gets the failure value, not an
\* exception.
C6_TransportErrorEndsLookup ==
    response.kind = "exception" =>
        /\ pc = "idle"
        /\ api_response = <<[error |-> <<"Erro de conexão: ", response.e>>]>>
        /\ depth = 0
        /\ trace # <<>>
        /\ trace[Len(trace)] = GetCall(UrlPrefix \o LookupCode, response)
        /\ Len(trace) = 3 * Count429(trace) + 1
        /\ \A i \in Gets : i < Len(trace) => trace[i].response.kind = "http"
        /\ caller = "app" => session_state = Stored(EmptyDict, EmptyDict)

\* C6 witness: the request made after one wait raised
C6_Witness ==
    /\ response.kind = "exception"
    /\ Count429(trace) = 1
    /\ Len(trace) = 4
    /\ pc = "idle"

====
